---- MODULE Spec2Model ----
(***************************************************************************)
(* Model of the viral integration client                                   *)
(* (src/src/services/viral_integration_service.py) and of the              *)
(* configuration resolver (src/viral_config.py).                           *)
(*                                                                         *)
(* Spec        : one call of ViralIntegrationService.search_viral_content, *)
(*               one step per stretch of code between two points where the *)
(*               coroutine gives the event loop back (an await on the      *)
(*               network or on asyncio.sleep).                             *)
(* SpecRepeat  : several calls on the one service object, one after the    *)
(*               other or in flight together on one event loop.            *)
(* SpecProcess : _process_viral_results on a parsed response.              *)
(* SpecConfig  : calls of get_viral_config under changing environments.    *)
(* SpecHistory : calls of get_viral_search_history.                        *)
(***************************************************************************)
EXTENDS Integers, Sequences, FiniteSets

VARIABLES
    pc,               \* position of each search call
    route,            \* "none" | "primary" (retry loop) | "sync" (_search_viral_sync_fallback)
    query,            \* argument query of each call
    session_id,       \* argument session_id of each call
    attempt,          \* loop variable of `for attempt in range(self.max_retries)`
    probes,           \* outcomes of the health probes of each call, in order
    posts,            \* the search POSTs of each call, in order: outcome, body read
    waits,            \* arguments of the asyncio.sleep calls of each call, in order
    viral_result,     \* parsed body of the 200 response a call is processing
    idx,              \* 1-based position of the next record of the processing loop
    pending_filename, \* file name of the download in flight of each call
    processed_images, \* local list of _process_viral_results
    gets,             \* the image GETs of this processing that ended: position, saved or not
    written,          \* paths of the files each call wrote
    files,            \* image files present in the cache
    files0,           \* the cache as it was when each call started
    calls,            \* number of search calls started
    returned,         \* "no" | "value" | "None" | "raised"
    result,           \* the returned record when returned = "value"
    worker,           \* what the worker and the image hosts can answer in this run
    VIRAL_WORKER_URL, \* the VIRAL_WORKER_URL environment variable
    VIRAL_CONFIG,     \* the shared module-level configuration record
    ENVIRONMENT,      \* the ENVIRONMENT environment variable
    config,           \* the record get_viral_config returned last
    config_env,       \* the value of ENVIRONMENT that call read
    hist_limit,       \* argument limit of the last get_viral_search_history call
    hist_response,    \* what the worker answered to its GET
    hist_returned,    \* "no" | "value" | "raised"
    hist_result       \* the value it returned

search_vars == <<pc, route, query, session_id, attempt, probes, posts, waits,
                 viral_result, idx, pending_filename, processed_images, gets,
                 written, files, files0, calls, returned, result, worker>>
config_vars == <<VIRAL_WORKER_URL, VIRAL_CONFIG, ENVIRONMENT, config, config_env>>
history_vars == <<hist_limit, hist_response, hist_returned, hist_result>>
vars == <<search_vars, config_vars, history_vars>>

(***************************************************************************)
(* Bounds of the model.                                                    *)
(***************************************************************************)
MaxImages == 2
MaxBatch == 3
MaxCalls == 2
MaxTime == 1
MaxLimit == 3
MaxHistory == 3

(***************************************************************************)
(* Program constants.                                                      *)
(***************************************************************************)
max_retries == 3

NoneValue == [none |-> TRUE]

Status(code) == [kind |-> "status", status |-> code]
Raised(exc) == [kind |-> "raised", exception |-> exc]

(***************************************************************************)
(* JSON values the worker can answer with.  A JSON number is Num(n), a     *)
(* JSON string Str; an object is a record of its keys.                     *)
(***************************************************************************)
Num(n) == [t |-> "number", v |-> n]
Str == [t |-> "string"]
Rec(fields) == [t |-> "object", f |-> fields]

RawRecords ==
    { Rec([image_url |-> "https://x/a.png", platform |-> "instagram",
           engagement_score |-> Num(80)]),
      Rec([platform |-> "facebook", engagement_score |-> Num(1)]),
      Rec([image_url |-> "https://x/b", platform |-> "none"]),
      Rec([image_url |-> "", platform |-> "instagram",
           engagement_score |-> Str]) }

\* What iterating the 'images' value can yield: records, or values that are
\* no objects (the characters of a string, the keys of an object).
Elements == RawRecords \cup {Str}

SeqsUpTo(S, n) == UNION {[1..k -> S] : k \in 0..n}

\* The 'images' value of a response object, with at most n elements: the key
\* absent; "null" for a value without a length (null, a number, a boolean);
\* a list; "string" for an iterable that is no list (a string yields its
\* characters, an object its keys: texts in both cases).
ImagesValues(n) ==
    {[t |-> "absent"], [t |-> "null"]}
    \cup {[t |-> "list", elems |-> e] : e \in SeqsUpTo(Elements, n)}
    \cup {[t |-> "string", elems |-> e] : e \in SeqsUpTo({Str}, n)}

\* Bodies of a 200 answer to the search POST.
Bodies ==
    {[t |-> "notjson"], [t |-> "array"]}
    \cup {[t |-> "object", images |-> im] : im \in ImagesValues(MaxImages)}

NoBody == [t |-> "nobody"]

(***************************************************************************)
(* dict.get(key, default) on a raw record.                                 *)
(***************************************************************************)
Get(d, key, default) == IF key \in DOMAIN d.f THEN d.f[key] ELSE default

\* response.json(): raises when the body is no JSON.
JsonRaises(body) == body.t = "notjson"

\* result.get('images', []) of lines 102, 178 and 201: raises AttributeError
\* when the parsed value is no object.
GetImagesRaises(body) == body.t # "object"

\* The value of result.get('images', []): the key's value, [] when absent.
GetImages(body) ==
    IF body.images.t = "absent" THEN [t |-> "list", elems |-> <<>>]
    ELSE body.images

\* len(result.get('images', [])) inside the log line: raises TypeError for a
\* value without a length (null, a number).
LenRaises(body) == GetImages(body).t = "null"

\* A 200 body that makes the caller's code raise before processing starts.
BodyRaises(body) ==
    JsonRaises(body) \/ GetImagesRaises(body) \/ LenRaises(body)

\* The sequence enumerate(images) walks.
Images(body) == GetImages(body).elems

(***************************************************************************)
(* _download_and_save_image                                                *)
(***************************************************************************)
AllowedExtensions == {"jpg", "jpeg", "png", "gif", "webp"}

\* urlparse(image_url).path.split('.')
PathParts(url) ==
    CASE url = "https://x/a.png" -> <<"/a", "png">>
      [] url = "https://x/b" -> <<"/b">>
      [] url = "https://x/c.PNG" -> <<"/c", "PNG">>
      [] OTHER -> <<"">>

\* str.lower()
Lower(s) == IF s = "PNG" THEN "png" ELSE s

\* The extension chosen for the file of an image URL.
Extension(url) ==
    LET path_parts == PathParts(url)
        last == Lower(path_parts[Len(path_parts)])
    IN  IF Len(path_parts) > 1 /\ last \in AllowedExtensions
        THEN last ELSE "jpg"

\* f"viral_image_{i+1}_{int(time.time())}", with i+1 the 1-based position.
FilenameBase_noindex(position, time) == [index |-> 1, time |-> time]
FilenameBase(position, time) == [index |-> position, time |-> time]

\* save_dir / f"{filename_base}.{extension}", save_dir = images_dir / session_id
FilePath(session, filename_base, extension) ==
    [session_id |-> session, filename_base |-> filename_base,
     extension |-> extension]

\* Answers to the image GET (`async with session.get(...) as response`).
DownloadOutcomes == {Status(200), Status(404), Raised("ClientError")}

\* Ends of `await response.read()` on an answer of 200: the content was read
\* (the download ended with its 200), or the read raised.
ReadOutcomes == {Status(200), Raised("ClientPayloadError")}

\* `if not image_url: return None` : no request is made for an empty URL.
DownloadIssuesGet_always(image_url) == TRUE
DownloadIssuesGet(image_url) == image_url # ""

\* The file the download writes (`with open(file_path, 'wb')` on a status of
\* 200 whose content was read), NoneValue when it writes none.
DownloadedFile(image_url, session, filename_base, outcome) ==
    IF ~DownloadIssuesGet(image_url) THEN NoneValue
    ELSE IF outcome = Status(200)
         THEN FilePath(session, filename_base, Extension(image_url))
         ELSE NoneValue

\* The value the download returns: the path of the file it wrote, else None.
DownloadResult_drop(image_url, session, filename_base, outcome) == NoneValue
DownloadResult_always(image_url, session, filename_base, outcome) ==
    FilePath(session, filename_base, Extension(image_url))
DownloadResult(image_url, session, filename_base, outcome) ==
    DownloadedFile(image_url, session, filename_base, outcome)

(***************************************************************************)
(* _process_viral_results                                                  *)
(***************************************************************************)
\* image_data.get(...) raises AttributeError when the element is no object.
RecordRaises(image_data) == image_data.t # "object"

\* datetime.now().isoformat(): the text of a timestamp, which nothing reads.
Timestamp == "isoformat"

\* The processed_image dictionary (the fields copied verbatim with their
\* defaults and read by nothing else are left out).
ProcessedImage_first(image_data, session, position, local_image_path) ==
    [id |-> [session_id |-> session, index |-> 1],
     platform |-> Get(image_data, "platform", "unknown"),
     engagement_score |-> Get(image_data, "engagement_score", Num(0)),
     views_estimate |-> Get(image_data, "views_estimate", Num(0)),
     likes_estimate |-> Get(image_data, "likes_estimate", Num(0)),
     image_url |-> Get(image_data, "image_url", ""),
     local_image_path |-> local_image_path]
ProcessedImage(image_data, session, position, local_image_path) ==
    [id |-> [session_id |-> session, index |-> position],
     platform |-> Get(image_data, "platform", "unknown"),
     engagement_score |-> Get(image_data, "engagement_score", Num(0)),
     views_estimate |-> Get(image_data, "views_estimate", Num(0)),
     likes_estimate |-> Get(image_data, "likes_estimate", Num(0)),
     image_url |-> Get(image_data, "image_url", ""),
     local_image_path |-> local_image_path]

\* sum(img.get(key, 0) for img in processed_images) raises TypeError on a
\* value that is no number.
SumRaises(imgs, key) == \E k \in 1..Len(imgs) : imgs[k][key].t # "number"

RECURSIVE Sum(_, _)
Sum(imgs, key) ==
    IF imgs = <<>> THEN 0
    ELSE imgs[1][key].v + Sum(Tail(imgs), key)

AggregatesRaise(imgs) ==
    SumRaises(imgs, "engagement_score") \/ SumRaises(imgs, "views_estimate")
    \/ SumRaises(imgs, "likes_estimate")

\* list(set(img.get('platform', 'unknown') for img in processed_images));
\* the order of the list is the set's iteration order.
PlatformsFound(imgs) == {imgs[k].platform : k \in 1..Len(imgs)}

\* len([img for img in processed_images if img.get('platform') == p])
PlatformCount(imgs, p) == Cardinality({k \in 1..Len(imgs) : imgs[k].platform = p})

\* The values max(platforms_found, key=...) can return: max returns the first
\* maximal element in the iteration order of the set, which is not fixed.
TopPlatforms_min(imgs) ==
    IF PlatformsFound(imgs) = {} THEN {"none"}
    ELSE {p \in PlatformsFound(imgs) :
            \A q \in PlatformsFound(imgs) :
                PlatformCount(imgs, q) >= PlatformCount(imgs, p)}
TopPlatforms(imgs) ==
    IF PlatformsFound(imgs) = {} THEN {"none"}
    ELSE {p \in PlatformsFound(imgs) :
            \A q \in PlatformsFound(imgs) :
                PlatformCount(imgs, q) <= PlatformCount(imgs, p)}

\* total_engagement / len(processed_images) if processed_images else 0,
\* a true division: the quotient is kept as numerator and denominator.
AverageEngagement_nodiv(total_engagement, imgs) == [num |-> total_engagement, den |-> 1]
AverageEngagement(total_engagement, imgs) ==
    IF imgs # <<>> THEN [num |-> total_engagement, den |-> Len(imgs)]
    ELSE [num |-> 0, den |-> 1]

\* len([img for img in processed_images if img.get('local_image_path')])
SavedCount(imgs) ==
    Cardinality({k \in 1..Len(imgs) : imgs[k].local_image_path # NoneValue})

\* The dictionary _process_viral_results returns.
ProcessedResult(body, session, imgs, top) ==
    [session_id |-> session,
     search_completed_at |-> Timestamp,
     total_images_found |-> Len(imgs),
     total_images_saved |-> SavedCount(imgs),
     platforms_searched |-> PlatformsFound(imgs),
     viral_images |-> imgs,
     aggregated_metrics |->
        [total_engagement_score |-> Sum(imgs, "engagement_score"),
         average_engagement |->
            AverageEngagement(Sum(imgs, "engagement_score"), imgs),
         total_estimated_views |-> Sum(imgs, "views_estimate"),
         total_estimated_likes |-> Sum(imgs, "likes_estimate"),
         top_performing_platform |-> top],
     original_viral_result |-> body]

(***************************************************************************)
(* _create_fallback_result                                                 *)
(***************************************************************************)
FallbackResult_unflagged(q, session) ==
    [session_id |-> session,
     search_completed_at |-> Timestamp,
     total_images_found |-> 0,
     total_images_saved |-> 0,
     platforms_searched |-> {},
     viral_images |-> <<>>,
     aggregated_metrics |->
        [total_engagement_score |-> 0,
         average_engagement |-> [num |-> 0, den |-> 1],
         total_estimated_views |-> 0,
         total_estimated_likes |-> 0,
         top_performing_platform |-> "none"],
     error |-> "Falha na integracao com o servico viral",
     fallback_used |-> FALSE,
     original_query |-> q]
FallbackResult_short(q, session) ==
    [session_id |-> session,
     search_completed_at |-> Timestamp,
     total_images_found |-> 0,
     total_images_saved |-> 0,
     viral_images |-> <<>>,
     aggregated_metrics |->
        [total_engagement_score |-> 0,
         average_engagement |-> [num |-> 0, den |-> 1],
         total_estimated_views |-> 0,
         total_estimated_likes |-> 0,
         top_performing_platform |-> "none"],
     error |-> "Falha na integracao com o servico viral",
     fallback_used |-> TRUE,
     original_query |-> q]
FallbackResult(q, session) ==
    [session_id |-> session,
     search_completed_at |-> Timestamp,
     total_images_found |-> 0,
     total_images_saved |-> 0,
     platforms_searched |-> {},
     viral_images |-> <<>>,
     aggregated_metrics |->
        [total_engagement_score |-> 0,
         average_engagement |-> [num |-> 0, den |-> 1],
         total_estimated_views |-> 0,
         total_estimated_likes |-> 0,
         top_performing_platform |-> "none"],
     error |-> "Falha na integracao com o servico viral",
     fallback_used |-> TRUE,
     original_query |-> q]

(***************************************************************************)
(* search_viral_content                                                    *)
(***************************************************************************)
Queries == {"ofertas"}
Sessions == {"sess-1", "sess-2"}

\* The calls of search_viral_content on the one service object.
CallIds == 1..MaxCalls

\* Outcomes of the health probe GET {base}/api/searches.
HealthOutcomes ==
    {Status(200), Status(404), Status(500), Raised("ConnectionError"),
     Raised("Timeout"), Raised("Exception")}

\* _check_viral_service_health: True exactly on a status of 200 or 404.
ServiceAvailable_any(outcome) == outcome.kind = "status"
ServiceAvailable_strict(outcome) == outcome = Status(200)
ServiceAvailable(outcome) ==
    outcome.kind = "status" /\ outcome.status \in {200, 404}

\* What one search POST of the retry loop can meet.
PostResponses ==
    {Status(200), Status(500), Raised("TimeoutError"), Raised("Exception")}

\* What the single POST of _search_viral_sync_fallback can meet.
SyncResponses ==
    {Status(200), Status(500), Raised("RequestException"),
     Raised("Exception")}

\* A worker and image hosts that can answer anything.
AnyWorker ==
    [health |-> HealthOutcomes,
     search |-> PostResponses,
     sync |-> SyncResponses,
     bodies |-> Bodies,
     images |-> DownloadOutcomes,
     reads |-> ReadOutcomes]

\* A worker that is up or down, answers a search with one record or with a
\* 500, and image hosts that answer 200 or 404.
SteadyWorker ==
    [health |-> {Status(200), Status(500)},
     search |-> {Status(200), Status(500)},
     sync |-> {Status(200), Status(500)},
     bodies |->
        {[t |-> "object",
          images |-> [t |-> "list",
                      elems |-> <<Rec([image_url |-> "https://x/a.png",
                                       platform |-> "instagram",
                                       engagement_score |-> Num(80)])>>]]},
     images |-> {Status(200), Status(404)},
     reads |-> ReadOutcomes]

\* `if attempt == self.max_retries - 1` of the three failure branches.
IsLastAttempt_off(a) == a = max_retries
IsLastAttempt_early(a) == a = max_retries - 2
IsLastAttempt(a) == a = max_retries - 1

\* 2 ** attempt
Backoff_flat(a) == 1
Backoff(a) == 2 ^ a

\* The positions of a call at which its code is running: the blocking
\* requests.get of the probe, the blocking requests.post of the alternative
\* path, and the processing loop between two downloads.  At every other
\* position the coroutine is suspended on an await or has not started.
RunningPositions == {"health", "sync", "process"}

\* The event loop runs one coroutine at a time: call c can take a step only
\* when no other call is in the middle of running code.
LoopFree(c) == \A d \in CallIds \ {c} : pc[d] \notin RunningPositions

\* `return <record>` of the call.
Return(c, record) ==
    /\ pc' = [pc EXCEPT ![c] = "done"]
    /\ returned' = [returned EXCEPT ![c] = "value"]
    /\ result' = [result EXCEPT ![c] = record]

\* A failed attempt of the retry loop (non-200 status, timeout or connection
\* error, any other exception): the fallback result on the last attempt,
\* otherwise `await asyncio.sleep(2 ** attempt)`.
AttemptFailed(c) ==
    IF IsLastAttempt(attempt[c])
    THEN /\ Return(c, FallbackResult(query[c], session_id[c]))
         /\ UNCHANGED waits
    ELSE /\ waits' = [waits EXCEPT ![c] = Append(@, Backoff(attempt[c]))]
         /\ pc' = [pc EXCEPT ![c] = "sleep"]
         /\ UNCHANGED <<returned, result>>

\* Entry of _process_viral_results on a parsed body.
StartProcessing(c, body) ==
    /\ viral_result' = [viral_result EXCEPT ![c] = body]
    /\ idx' = [idx EXCEPT ![c] = 1]
    /\ processed_images' = [processed_images EXCEPT ![c] = <<>>]
    /\ gets' = [gets EXCEPT ![c] = <<>>]
    /\ pc' = [pc EXCEPT ![c] = "process"]

\* What the cache directory can hold when the service is constructed
\* (images_dir.mkdir(parents=True, exist_ok=True) keeps what is there):
\* nothing, or a file an earlier run of the program wrote.
InitialCaches ==
    {{}, {FilePath("sess-1", FilenameBase(1, 0), "png")}}

\* No call has started.
CallsIdle ==
    /\ pc = [c \in CallIds |-> "idle"]
    /\ route = [c \in CallIds |-> "none"]
    /\ query = [c \in CallIds |-> ""]
    /\ session_id = [c \in CallIds |-> ""]
    /\ attempt = [c \in CallIds |-> 0]
    /\ probes = [c \in CallIds |-> <<>>]
    /\ posts = [c \in CallIds |-> <<>>]
    /\ waits = [c \in CallIds |-> <<>>]
    /\ viral_result = [c \in CallIds |-> NoBody]
    /\ idx = [c \in CallIds |-> 0]
    /\ pending_filename = [c \in CallIds |-> NoneValue]
    /\ processed_images = [c \in CallIds |-> <<>>]
    /\ gets = [c \in CallIds |-> <<>>]
    /\ written = [c \in CallIds |-> {}]
    /\ files \in InitialCaches
    /\ files0 = [c \in CallIds |-> {}]
    /\ calls = 0
    /\ returned = [c \in CallIds |-> "no"]
    /\ result = [c \in CallIds |-> NoneValue]

SearchIdle == CallsIdle /\ worker = AnyWorker

\* Entry of search_viral_content(query, session_id) for call c.
StartCall(c) ==
    /\ pc[c] = "idle"
    /\ LoopFree(c)
    /\ \E q \in Queries, s \in Sessions :
         /\ query' = [query EXCEPT ![c] = q]
         /\ session_id' = [session_id EXCEPT ![c] = s]
    /\ calls' = calls + 1
    /\ pc' = [pc EXCEPT ![c] = "health"]
    /\ files0' = [files0 EXCEPT ![c] = files]
    /\ UNCHANGED <<route, attempt, probes, posts, waits, viral_result, idx,
                   pending_filename, processed_images, gets, written, files,
                   returned, result, worker, config_vars, history_vars>>

SearchOff == SearchIdle /\ files = {}

\* A caller invokes search_viral_content on the freshly constructed service.
Search ==
    /\ calls = 0
    /\ StartCall(1)

\* A caller invokes search_viral_content again, after the earlier calls
\* returned or while they are suspended.
SearchAgain ==
    /\ calls >= 1
    /\ calls < MaxCalls
    /\ StartCall(calls + 1)

\* `if not await self._check_viral_service_health()` and what follows it
\* without a suspension: the first POST of the retry loop is issued, or the
\* blocking POST of the alternative path.
CheckHealth ==
    \E c \in CallIds :
      /\ pc[c] = "health"
      /\ LoopFree(c)
      /\ \E outcome \in worker.health :
           /\ probes' = [probes EXCEPT ![c] = Append(@, outcome)]
           /\ IF ServiceAvailable(outcome)
              THEN /\ route' = [route EXCEPT ![c] = "primary"]
                   /\ pc' = [pc EXCEPT ![c] = "post"]
              ELSE /\ route' = [route EXCEPT ![c] = "sync"]
                   /\ pc' = [pc EXCEPT ![c] = "sync"]
      /\ UNCHANGED <<query, session_id, attempt, posts, waits, viral_result,
                     idx, pending_filename, processed_images, gets, written,
                     files, files0, calls, returned, result, worker,
                     config_vars, history_vars>>

\* The answer to the POST of one iteration of
\* `for attempt in range(self.max_retries)`: on a status the body is read
\* next (`await response.json()` on 200, `await response.text()` otherwise);
\* an exception is a failed attempt.
PostAttempt ==
    \E c \in CallIds :
      /\ pc[c] = "post"
      /\ LoopFree(c)
      /\ \E outcome \in worker.search :
           /\ posts' = [posts EXCEPT
                          ![c] = Append(@, [outcome |-> outcome,
                                            body |-> NoBody])]
           /\ IF outcome = Status(200)
              THEN /\ pc' = [pc EXCEPT ![c] = "json"]
                   /\ UNCHANGED <<waits, returned, result>>
              ELSE IF outcome.kind = "status"
              THEN /\ pc' = [pc EXCEPT ![c] = "text"]
                   /\ UNCHANGED <<waits, returned, result>>
              ELSE AttemptFailed(c)
      /\ UNCHANGED <<route, query, session_id, attempt, probes, viral_result,
                     idx, pending_filename, processed_images, gets, written,
                     files, files0, calls, worker, config_vars,
                     history_vars>>

\* `result = await response.json()` has ended, and the log line that takes
\* len(result.get('images', [])): a body that makes either raise is a
\* failed attempt, any other is handed to _process_viral_results.
ParseBody ==
    \E c \in CallIds :
      /\ pc[c] = "json"
      /\ LoopFree(c)
      /\ \E body \in worker.bodies :
           /\ posts' = [posts EXCEPT ![c][Len(posts[c])].body = body]
           /\ IF BodyRaises(body)
              THEN /\ AttemptFailed(c)
                   /\ UNCHANGED <<viral_result, idx, processed_images, gets>>
              ELSE /\ StartProcessing(c, body)
                   /\ UNCHANGED <<waits, returned, result>>
      /\ UNCHANGED <<route, query, session_id, attempt, probes,
                     pending_filename, written, files, files0, calls, worker,
                     config_vars, history_vars>>

\* `error_text = await response.text()` has ended, with the text or with an
\* exception: a failed attempt either way.
ReadError ==
    \E c \in CallIds :
      /\ pc[c] = "text"
      /\ LoopFree(c)
      /\ AttemptFailed(c)
      /\ UNCHANGED <<route, query, session_id, attempt, probes, posts,
                     viral_result, idx, pending_filename, processed_images,
                     gets, written, files, files0, calls, worker,
                     config_vars, history_vars>>

\* asyncio.sleep has ended: `continue`, and the POST of the next iteration
\* is issued.  A loop that runs out of iterations falls off the end of the
\* function, which returns None.
EndSleep ==
    \E c \in CallIds :
      /\ pc[c] = "sleep"
      /\ LoopFree(c)
      /\ attempt' = [attempt EXCEPT ![c] = @ + 1]
      /\ IF attempt[c] + 1 < max_retries
         THEN /\ pc' = [pc EXCEPT ![c] = "post"]
              /\ UNCHANGED <<returned, result>>
         ELSE /\ pc' = [pc EXCEPT ![c] = "done"]
              /\ returned' = [returned EXCEPT ![c] = "None"]
              /\ result' = [result EXCEPT ![c] = NoneValue]
      /\ UNCHANGED <<route, query, session_id, probes, posts, waits,
                     viral_result, idx, pending_filename, processed_images,
                     gets, written, files, files0, calls, worker,
                     config_vars, history_vars>>

\* _search_viral_sync_fallback up to the answer to its blocking POST and
\* the parsing of its body.
SyncFallback ==
    \E c \in CallIds :
      /\ pc[c] = "sync"
      /\ LoopFree(c)
      /\ \E outcome \in worker.sync :
         \E body \in (IF outcome = Status(200)
                      THEN worker.bodies ELSE {NoBody}) :
           /\ posts' = [posts EXCEPT
                          ![c] = Append(@, [outcome |-> outcome,
                                            body |-> body])]
           /\ IF outcome = Status(200) /\ ~BodyRaises(body)
              THEN /\ StartProcessing(c, body)
                   /\ UNCHANGED <<returned, result>>
              ELSE /\ Return(c, FallbackResult(query[c], session_id[c]))
                   /\ UNCHANGED <<viral_result, idx, processed_images, gets>>
      /\ UNCHANGED <<route, query, session_id, attempt, probes, waits,
                     pending_filename, written, files, files0, calls, worker,
                     config_vars, history_vars>>

\* The record the processing loop of call c is at.
ImageData(c) == Images(viral_result[c])[idx[c]]

\* The end of _download_and_save_image for the record call c is at, and
\* the rest of the iteration: the file is written when the download ended
\* with a 200, the item is appended, the loop goes to the next record.
CompleteDownload(c, name, outcome) ==
    LET image_url == Get(ImageData(c), "image_url", "")
        local_image_path ==
            DownloadResult(image_url, session_id[c], name, outcome)
        file == DownloadedFile(image_url, session_id[c], name, outcome)
    IN  /\ processed_images' =
              [processed_images EXCEPT
                 ![c] = Append(@, ProcessedImage(ImageData(c), session_id[c],
                                                 idx[c], local_image_path))]
        /\ IF file # NoneValue
           THEN /\ files' = files \cup {file}
                /\ written' = [written EXCEPT ![c] = @ \cup {file}]
           ELSE UNCHANGED <<files, written>>
        /\ idx' = [idx EXCEPT ![c] = @ + 1]
        /\ pending_filename' = [pending_filename EXCEPT ![c] = NoneValue]
        /\ pc' = [pc EXCEPT ![c] = "process"]

\* One iteration of `for i, image_data in enumerate(images)` up to its
\* first await: an element that is no object is skipped; the clock is read
\* for the file name; a record with no image URL is appended at once, for
\* any other the image GET is issued.
ProcessImage ==
    \E c \in CallIds :
      /\ pc[c] = "process"
      /\ LoopFree(c)
      /\ idx[c] <= Len(Images(viral_result[c]))
      /\ IF RecordRaises(ImageData(c))
         THEN /\ idx' = [idx EXCEPT ![c] = @ + 1]
              /\ UNCHANGED <<pc, pending_filename, processed_images, written,
                             files>>
         ELSE \E time \in 0..MaxTime :
                IF DownloadIssuesGet(Get(ImageData(c), "image_url", ""))
                THEN /\ pending_filename' =
                           [pending_filename EXCEPT
                              ![c] = FilenameBase(idx[c], time)]
                     /\ pc' = [pc EXCEPT ![c] = "get"]
                     /\ UNCHANGED <<idx, processed_images, written, files>>
                ELSE CompleteDownload(c, FilenameBase(idx[c], time),
                                      NoneValue)
      /\ UNCHANGED <<route, query, session_id, attempt, probes, posts, waits,
                     viral_result, gets, files0, calls, returned, result,
                     worker, config_vars, history_vars>>

\* The image GET in flight has ended.
LogGet(c, outcome) ==
    gets' = [gets EXCEPT
               ![c] = Append(@, [index |-> idx[c],
                                 ok |-> outcome = Status(200)])]

\* The answer to `async with session.get(image_url, ...)`: on a 200 the
\* content is read next (`await response.read()`); any other status and an
\* exception end the download with no file.
DownloadAnswer ==
    \E c \in CallIds :
      /\ pc[c] = "get"
      /\ LoopFree(c)
      /\ \E outcome \in worker.images :
           IF outcome = Status(200)
           THEN /\ pc' = [pc EXCEPT ![c] = "read"]
                /\ UNCHANGED <<idx, pending_filename, processed_images, gets,
                               written, files>>
           ELSE /\ CompleteDownload(c, pending_filename[c], outcome)
                /\ LogGet(c, outcome)
      /\ UNCHANGED <<route, query, session_id, attempt, probes, posts, waits,
                     viral_result, files0, calls, returned, result, worker,
                     config_vars, history_vars>>

\* `content = await response.read()` has ended: the file is written, unless
\* the read raised.
SaveImage ==
    \E c \in CallIds :
      /\ pc[c] = "read"
      /\ LoopFree(c)
      /\ \E outcome \in worker.reads :
           /\ CompleteDownload(c, pending_filename[c], outcome)
           /\ LogGet(c, outcome)
      /\ UNCHANGED <<route, query, session_id, attempt, probes, posts, waits,
                     viral_result, files0, calls, returned, result, worker,
                     config_vars, history_vars>>

\* The aggregation and the return of _process_viral_results, and what its
\* caller does with the record or with the exception: the retry loop counts
\* a failed attempt, the alternative path returns the fallback result, and
\* any other caller sees the exception.
FinishProcessing ==
    \E c \in CallIds :
      /\ pc[c] = "process"
      /\ LoopFree(c)
      /\ idx[c] > Len(Images(viral_result[c]))
      /\ IF AggregatesRaise(processed_images[c])
         THEN CASE route[c] = "primary" -> AttemptFailed(c)
                [] route[c] = "sync" ->
                      /\ Return(c, FallbackResult(query[c], session_id[c]))
                      /\ UNCHANGED waits
                [] OTHER ->
                      /\ pc' = [pc EXCEPT ![c] = "done"]
                      /\ returned' = [returned EXCEPT ![c] = "raised"]
                      /\ UNCHANGED <<result, waits>>
         ELSE /\ \E top \in TopPlatforms(processed_images[c]) :
                   Return(c, ProcessedResult(viral_result[c], session_id[c],
                                             processed_images[c], top))
              /\ UNCHANGED waits
      /\ UNCHANGED <<route, query, session_id, attempt, probes, posts,
                     viral_result, idx, pending_filename, processed_images,
                     gets, written, files, files0, calls, worker,
                     config_vars, history_vars>>


(***************************************************************************)
(* viral_config.py                                                         *)
(***************************************************************************)
\* An environment variable that is not set.
Unset == "<unset>"

\* os.getenv(name, default) on the value of a variable.
Getenv(value, default) == IF value = Unset THEN default ELSE value

DefaultWorkerUrl == "http://localhost:8787"

\* Values of VIRAL_WORKER_URL when the module is imported.
WorkerUrlOverrides ==
    {Unset, "https://override-a.example", "https://override-b.example"}

\* Values of ENVIRONMENT.
EnvironmentNames ==
    {Unset, "local", "development", "production", "staging", "test", "",
     "LOCAL"}

\* The module-level VIRAL_CONFIG dictionary, built at import.
ViralConfigAtImport(worker_url_var) ==
    [worker_url |-> Getenv(worker_url_var, DefaultWorkerUrl),
     default_max_images |-> 20,
     default_min_engagement |-> 50,
     request_timeout |-> 30,
     max_retries |-> 3,
     images_dir |-> "analyses_data/viral_images",
     max_image_size_mb |-> 10,
     enable_fallback |-> TRUE]

ENVIRONMENT_URLS ==
    [local |-> "http://localhost:8787",
     development |-> "https://your-dev-worker.your-subdomain.workers.dev",
     production |-> "https://your-prod-worker.your-subdomain.workers.dev"]

\* The body of get_viral_config on the shared record and the value of
\* ENVIRONMENT: the record it returns and the shared record it leaves.
ViralConfigCall_alias(shared, environment) ==
    LET env == Getenv(environment, "local")
        cfg == IF env \in DOMAIN ENVIRONMENT_URLS
               THEN [shared EXCEPT !.worker_url = ENVIRONMENT_URLS[env]]
               ELSE shared
    IN  [returned |-> cfg, shared |-> cfg]
ViralConfigCall(shared, environment) ==
    LET env == Getenv(environment, "local")
        copy == shared
    IN  [returned |-> IF env \in DOMAIN ENVIRONMENT_URLS
                      THEN [copy EXCEPT !.worker_url = ENVIRONMENT_URLS[env]]
                      ELSE copy,
         shared |-> shared]

ConfigIdle ==
    /\ VIRAL_WORKER_URL = Unset
    /\ VIRAL_CONFIG = ViralConfigAtImport(Unset)
    /\ ENVIRONMENT = Unset
    /\ config = NoneValue
    /\ config_env = "<no call>"

\* The module is imported under some VIRAL_WORKER_URL and ENVIRONMENT.
ConfigInit ==
    /\ VIRAL_WORKER_URL \in WorkerUrlOverrides
    /\ VIRAL_CONFIG = ViralConfigAtImport(VIRAL_WORKER_URL)
    /\ ENVIRONMENT \in EnvironmentNames
    /\ config = NoneValue
    /\ config_env = "<no call>"

\* The deployment changes ENVIRONMENT.
SetEnvironment ==
    /\ \E e \in EnvironmentNames : ENVIRONMENT' = e
    /\ UNCHANGED <<VIRAL_WORKER_URL, VIRAL_CONFIG, config, config_env,
                   search_vars, history_vars>>

\* A call of get_viral_config().
GetViralConfig ==
    /\ LET call == ViralConfigCall(VIRAL_CONFIG, ENVIRONMENT) IN
         /\ config' = call.returned
         /\ VIRAL_CONFIG' = call.shared
    /\ config_env' = ENVIRONMENT
    /\ UNCHANGED <<VIRAL_WORKER_URL, ENVIRONMENT, search_vars, history_vars>>

(***************************************************************************)
(* get_viral_search_history                                                *)
(***************************************************************************)
HistoryItems == {"search-1", "search-2"}

\* Bodies of a 200 answer to GET {base}/api/searches.
HistoryBodies ==
    {[t |-> "notjson"], [t |-> "object"], [t |-> "null"], [t |-> "number"]}
    \cup {[t |-> "list", elems |-> e] : e \in SeqsUpTo(HistoryItems, MaxHistory)}
    \cup {[t |-> "string", elems |-> e] : e \in SeqsUpTo({"c"}, MaxHistory)}

HistoryResponses ==
    {[outcome |-> Status(200), body |-> b] : b \in HistoryBodies}
    \cup {[outcome |-> o, body |-> NoBody] :
            o \in {Status(404), Status(500), Raised("ConnectionError"),
                   Raised("Timeout")}}

HistoryLimits == 0..MaxLimit

\* seq[:limit] of Python, for a list and for a string alike.
Slice(elems, limit) ==
    LET n == Len(elems)
        stop == IF limit < 0 THEN (IF n + limit < 0 THEN 0 ELSE n + limit)
                ELSE (IF limit > n THEN n ELSE limit)
    IN  SubSeq(elems, 1, stop)

\* response.json()[:limit] raises for a body that is no JSON, and for a JSON
\* value that cannot be sliced (an object, null, a number).
SliceRaises(body) == body.t \notin {"list", "string"}

EmptyList == [t |-> "list", elems |-> <<>>]

\* The value get_viral_search_history returns on a response.
HistoryValue(response, limit) ==
    IF response.outcome = Status(200) /\ ~SliceRaises(response.body)
    THEN [t |-> response.body.t, elems |-> Slice(response.body.elems, limit)]
    ELSE EmptyList

HistoryIdle ==
    /\ hist_limit = 0
    /\ hist_response = [outcome |-> NoneValue, body |-> NoBody]
    /\ hist_returned = "no"
    /\ hist_result = NoneValue

\* A call of get_viral_search_history(limit).
GetViralSearchHistory ==
    /\ \E limit \in HistoryLimits, response \in HistoryResponses :
         /\ hist_limit' = limit
         /\ hist_response' = response
         /\ hist_result' = HistoryValue(response, limit)
    /\ hist_returned' = "value"
    /\ UNCHANGED <<search_vars, config_vars>>

(***************************************************************************)
(* Specifications                                                          *)
(***************************************************************************)
Init == SearchIdle /\ ConfigIdle /\ HistoryIdle

Next ==
    \/ Search
    \/ CheckHealth
    \/ PostAttempt
    \/ ParseBody
    \/ ReadError
    \/ EndSleep
    \/ SyncFallback
    \/ ProcessImage
    \/ DownloadAnswer
    \/ SaveImage
    \/ FinishProcessing

Spec == Init /\ [][Next]_vars

\* The service under a steady worker, for several calls.
InitRepeat ==
    /\ CallsIdle
    /\ worker = SteadyWorker
    /\ ConfigIdle
    /\ HistoryIdle

NextRepeat == Next \/ SearchAgain

SpecRepeat == InitRepeat /\ [][NextRepeat]_vars

\* _process_viral_results applied to a parsed body and a session id.
InitProcess ==
    /\ pc = [c \in CallIds |-> IF c = 1 THEN "process" ELSE "idle"]
    /\ route = [c \in CallIds |-> IF c = 1 THEN "direct" ELSE "none"]
    /\ query = [c \in CallIds |-> ""]
    /\ \E s \in Sessions :
         session_id = [c \in CallIds |-> IF c = 1 THEN s ELSE ""]
    /\ attempt = [c \in CallIds |-> 0]
    /\ probes = [c \in CallIds |-> <<>>]
    /\ posts = [c \in CallIds |-> <<>>]
    /\ waits = [c \in CallIds |-> <<>>]
    /\ \E body \in {[t |-> "object", images |-> im] :
                       im \in ImagesValues(MaxBatch)} :
         /\ ~LenRaises(body)
         /\ viral_result = [c \in CallIds |-> IF c = 1 THEN body ELSE NoBody]
    /\ idx = [c \in CallIds |-> IF c = 1 THEN 1 ELSE 0]
    /\ pending_filename = [c \in CallIds |-> NoneValue]
    /\ processed_images = [c \in CallIds |-> <<>>]
    /\ gets = [c \in CallIds |-> <<>>]
    /\ written = [c \in CallIds |-> {}]
    /\ files \in InitialCaches
    /\ files0 = [c \in CallIds |-> IF c = 1 THEN files ELSE {}]
    /\ calls = 1
    /\ returned = [c \in CallIds |-> "no"]
    /\ result = [c \in CallIds |-> NoneValue]
    /\ worker = AnyWorker
    /\ ConfigIdle
    /\ HistoryIdle

NextProcess ==
    \/ ProcessImage
    \/ DownloadAnswer
    \/ SaveImage
    \/ FinishProcessing

SpecProcess == InitProcess /\ [][NextProcess]_vars

InitConfig == SearchOff /\ ConfigInit /\ HistoryIdle

NextConfig == SetEnvironment \/ GetViralConfig

SpecConfig == InitConfig /\ [][NextConfig]_vars

InitHistory == SearchOff /\ ConfigIdle /\ HistoryIdle

NextHistory == GetViralSearchHistory

SpecHistory == InitHistory /\ [][NextHistory]_vars

(***************************************************************************)
(* Properties                                                              *)
(***************************************************************************)
Done(c) == pc[c] = "done"

\* The outcomes of the search POSTs of call c, in order.
Outcomes(c) == [k \in 1..Len(posts[c]) |-> posts[c][k].outcome]

\* The fields every SearchResult carries.
SearchResultFields ==
    {"session_id", "search_completed_at", "total_images_found",
     "total_images_saved", "platforms_searched", "viral_images",
     "aggregated_metrics"}

\* The fields the spec reserves to failure results.
FailureOnlyFields == {"error", "fallback_used", "original_query"}

MetricFields ==
    {"total_engagement_score", "average_engagement", "total_estimated_views",
     "total_estimated_likes", "top_performing_platform"}

IsFallback(r) ==
    IF "fallback_used" \in DOMAIN r THEN r.fallback_used = TRUE ELSE FALSE

InCall(c) == pc[c] \notin {"idle", "done"}

\* Call c has returned a record.
Returned(c) == Done(c) /\ returned[c] = "value"

\* C1: search_viral_content never raises and never returns an absent value:
\* whatever the probe, the POSTs and the downloads do, a call that has
\* ended has returned a record with the SearchResult fields, and a call that
\* has not ended can always take its next step.
C1_NeverRaises ==
    \A c \in CallIds :
       /\ returned[c] \in {"no", "value"}
       /\ Done(c) => /\ returned[c] = "value"
                     /\ SearchResultFields \subseteq DOMAIN result[c]
                     /\ MetricFields = DOMAIN result[c].aggregated_metrics
       /\ InCall(c) => ENABLED Next

\* C1 witness: a call on the retry path that met a 200 answer it could not
\* use, then a timeout, then an unexpected error, and has returned.
C1_Witness ==
    /\ Done(1)
    /\ route[1] = "primary"
    /\ Outcomes(1) = <<Status(200), Raised("TimeoutError"), Raised("Exception")>>
    /\ returned[1] = "value"

\* A 200 body the spec calls malformed: no JSON, no object, no 'images' key,
\* or an 'images' value that is no list.
Malformed(body) ==
    \/ body.t \in {"notjson", "array"}
    \/ body.t = "object" /\ body.images.t # "list"

\* Every search POST of the call failed to reach the worker.
Unreachable(c) ==
    \A k \in 1..Len(posts[c]) : posts[c][k].outcome.kind = "raised"

\* Every search POST of the call got a 200 answer with a malformed body.
AnswersMalformed(c) ==
    \A k \in 1..Len(posts[c]) :
       posts[c][k].outcome = Status(200) /\ Malformed(posts[c][k].body)

\* Every search POST of the call either failed to reach the worker or got a
\* 200 answer with a malformed body.
WorkerBroken(c) ==
    \A k \in 1..Len(posts[c]) :
       \/ posts[c][k].outcome.kind = "raised"
       \/ posts[c][k].outcome = Status(200) /\ Malformed(posts[c][k].body)

\* A malformed body that is processed all the same: an object with no
\* 'images' key, or with an 'images' value that can be iterated.
ReadAsEmpty(body) ==
    body.t = "object" /\ body.images.t \in {"absent", "string"}

\* C2 (as claimed): against a worker that cannot be reached, or that answers
\* the search with a 200 and a malformed body, the call returns a record
\* with fallback_used = true, no items and top_performing_platform "none".
C2_MalformedGivesFallback ==
    \A c \in CallIds :
       (Returned(c) /\ (Unreachable(c) \/ AnswersMalformed(c)))
       => /\ IsFallback(result[c])
          /\ result[c].viral_images = <<>>
          /\ result[c].aggregated_metrics.top_performing_platform = "none"

\* C2 (amended): against a worker that, at every search POST of the call,
\* either cannot be reached or answers 200 with a malformed body, the call
\* returns a record with no items and top_performing_platform "none"; the
\* record is the fallback result (fallback_used = true) when every attempt
\* ended so or met a body that is no JSON, no object, or has an 'images'
\* value without a length, and a success record without fallback_used as
\* soon as one answer is an object with no 'images' key or with an 'images'
\* string or object.
C2_Degraded ==
    \A c \in CallIds :
       (Returned(c) /\ WorkerBroken(c))
       => /\ result[c].viral_images = <<>>
          /\ result[c].total_images_found = 0
          /\ result[c].aggregated_metrics.top_performing_platform = "none"
          /\ IsFallback(result[c])
               <=> ~\E k \in 1..Len(posts[c]) : ReadAsEmpty(posts[c][k].body)

\* C2 witness: the worker answered 200 with a body that is no JSON, then
\* with an object whose 'images' is a two-character string; both characters
\* were skipped and a success record with no items was returned.
C2_Witness ==
    /\ Returned(1)
    /\ Len(posts[1]) = 2
    /\ AnswersMalformed(1)
    /\ posts[1][1].body.t = "notjson"
    /\ posts[1][2].body.t = "object"
    /\ posts[1][2].body.images.t = "string"
    /\ Len(posts[1][2].body.images.elems) = 2
    /\ idx[1] = 3
    /\ result[1].viral_images = <<>>
    /\ ~IsFallback(result[1])

\* Every request of the call (the probe and each POST) was answered 500.
Always500(c) ==
    /\ \A k \in 1..Len(probes[c]) : probes[c][k] = Status(500)
    /\ \A k \in 1..Len(posts[c]) : posts[c][k].outcome = Status(500)

\* C3 (as claimed): against a worker that answers 500 to every request, the
\* probe included, a call makes exactly max_retries search POSTs and
\* returns the fallback result.
C3_Original ==
    \A c \in CallIds :
       (Done(c) /\ Always500(c))
       => (Len(posts[c]) = max_retries /\ IsFallback(result[c]))

\* C3 (amended): against a worker that answers 500 to every search POST, a
\* call returns the fallback result after exactly max_retries POSTs when the
\* health probe was answered 200 or 404, and after exactly one POST (the
\* alternative path) when the probe was answered 500 as well.
C3_RetryCount ==
    \A c \in CallIds :
       (Done(c) /\ \A k \in 1..Len(posts[c]) :
                      posts[c][k].outcome = Status(500))
       => /\ IsFallback(result[c])
          /\ Len(probes[c]) = 1
          /\ probes[c][1] \in {Status(200), Status(404)}
               => Len(posts[c]) = max_retries
          /\ probes[c][1] = Status(500) => Len(posts[c]) = 1

\* C3 witness: the worker answered 500 to the probe and to the one POST made.
C3_Witness ==
    /\ Done(1)
    /\ probes[1] = <<Status(500)>>
    /\ Outcomes(1) = <<Status(500)>>
    /\ IsFallback(result[1])

\* C4 (as claimed): the fields of a success result are exactly the fields
\* of a fallback result minus error, fallback_used and original_query.
C4_Original ==
    \A c \in CallIds :
       (Returned(c) /\ ~IsFallback(result[c]))
       => DOMAIN result[c]
            = DOMAIN FallbackResult(query[c], session_id[c])
                \ FailureOnlyFields

\* C4 (amended): a fallback result has the seven SearchResult fields and the
\* three failure-only fields; a success result has the seven SearchResult
\* fields and one success-only field, original_viral_result; both carry the
\* same five aggregated metrics.
C4_Fields ==
    \A c \in CallIds :
       Returned(c)
       => /\ DOMAIN result[c].aggregated_metrics = MetricFields
          /\ IF IsFallback(result[c])
             THEN DOMAIN result[c] = SearchResultFields \cup FailureOnlyFields
             ELSE DOMAIN result[c]
                    = SearchResultFields \cup {"original_viral_result"}

\* C4 witness: a success result with two items has been returned; it
\* carries original_viral_result and none of the failure-only fields.
C4_Witness ==
    /\ Returned(1)
    /\ ~IsFallback(result[1])
    /\ Len(result[1].viral_images) = 2
    /\ "original_viral_result" \in DOMAIN result[1]
    /\ DOMAIN result[1] \cap FailureOnlyFields = {}

\* The raw records of the body call c processes, and the positions of those
\* with a non-empty URL.
RawCount(c) == Len(Images(viral_result[c]))

RawAt(c, k) == Images(viral_result[c])[k]

WithUrl(c) ==
    {k \in 1..RawCount(c) :
        /\ RawAt(c, k).t = "object"
        /\ Get(RawAt(c, k), "image_url", "") # ""}

NoRecordError(c) == \A k \in 1..RawCount(c) : RawAt(c, k).t = "object"

AllDownloadsOk(c) ==
    /\ {gets[c][k].index : k \in 1..Len(gets[c])} = WithUrl(c)
    /\ \A k \in 1..Len(gets[c]) : gets[c][k].ok

\* C5: every result has total_images_saved <= total_images_found =
\* Len(viral_images); and a result made from a 200 answer with N raw
\* records, K of them with a non-empty image_url, all K downloads answered
\* 200 and no record failing, has total_images_found = N and
\* total_images_saved = K.
C5_Counts ==
    \A c \in CallIds :
       Returned(c)
       => /\ result[c].total_images_saved <= result[c].total_images_found
          /\ result[c].total_images_found = Len(result[c].viral_images)
          /\ (~IsFallback(result[c]) /\ NoRecordError(c) /\ AllDownloadsOk(c))
               => /\ result[c].total_images_found = RawCount(c)
                  /\ result[c].total_images_saved = Cardinality(WithUrl(c))

\* C5 witness: two raw records, one with an image URL whose download was
\* answered 200, one without.
C5_Witness ==
    /\ Returned(1)
    /\ ~IsFallback(result[1])
    /\ RawCount(1) = 2
    /\ Cardinality(WithUrl(1)) = 1
    /\ NoRecordError(1)
    /\ AllDownloadsOk(1)
    /\ result[1].total_images_saved = 1

\* The platforms of a result's items, and the number of items of each.
ItemPlatforms(r) == {r.viral_images[k].platform : k \in 1..Len(r.viral_images)}

ItemCount(r, p) ==
    Cardinality({k \in 1..Len(r.viral_images) : r.viral_images[k].platform = p})

TopOf(r) == r.aggregated_metrics.top_performing_platform

\* C6 (as claimed): top_performing_platform is a platform with the most
\* items, and it is "none" if and only if the item list is empty.
C6_Original ==
    \A c \in CallIds :
       Returned(c)
       => /\ result[c].viral_images # <<>>
               => /\ TopOf(result[c]) \in ItemPlatforms(result[c])
                  /\ \A q \in ItemPlatforms(result[c]) :
                        ItemCount(result[c], q)
                          <= ItemCount(result[c], TopOf(result[c]))
          /\ TopOf(result[c]) = "none" <=> result[c].viral_images = <<>>

\* C6 (amended): top_performing_platform is "none" when the item list is
\* empty; otherwise it is the platform of some item and no platform has
\* strictly more items.  (A non-empty list gives "none" as well when an
\* item's platform is the text "none".)
C6_TopPlatform ==
    \A c \in CallIds :
       Returned(c)
       => IF result[c].viral_images = <<>>
          THEN TopOf(result[c]) = "none"
          ELSE /\ TopOf(result[c]) \in ItemPlatforms(result[c])
               /\ \A q \in ItemPlatforms(result[c]) :
                     ItemCount(result[c], q)
                       <= ItemCount(result[c], TopOf(result[c]))

\* C6 witness: three items, two of one platform and one of another, and the
\* platform with two items reported.
C6_Witness ==
    /\ Returned(1)
    /\ Len(result[1].viral_images) = 3
    /\ ItemCount(result[1], TopOf(result[1])) = 2
    /\ \E q \in ItemPlatforms(result[1]) : ItemCount(result[1], q) = 1

\* C7 (as claimed): two calls on the service write files with distinct
\* paths, however close in time they are, so a second call with the same
\* session id and the same payload overwrites no file of the first.
C7_IndependentFiles ==
    \A c, d \in CallIds : c # d => written[c] \cap written[d] = {}

\* C8: average_engagement * total_images_found = the sum of the items'
\* engagement scores = total_engagement_score when there are items; the
\* average is exactly 0 when there are none; the division never faults.
C8_Average ==
    \A c \in CallIds :
       /\ returned[c] # "raised"
       /\ Returned(c)
          => LET m == result[c].aggregated_metrics
                 n == result[c].total_images_found
             IN  /\ m.average_engagement.den > 0
                 /\ m.total_engagement_score
                      = Sum(result[c].viral_images, "engagement_score")
                 /\ n > 0 => m.average_engagement.num * n
                               = m.total_engagement_score
                                   * m.average_engagement.den
                 /\ n = 0 => m.average_engagement.num = 0

\* C8 witness: a result of two items with scores 80 and 1, whose average is
\* the fraction 81/2.
C8_Witness ==
    /\ Returned(1)
    /\ result[1].total_images_found = 2
    /\ result[1].aggregated_metrics.total_engagement_score = 81
    /\ result[1].aggregated_metrics.average_engagement
         = [num |-> 81, den |-> 2]

\* The name get_viral_config resolved: ENVIRONMENT, "local" when unset.
ResolvedEnv == IF config_env = Unset THEN "local" ELSE config_env

\* The worker URL fixed at import: the override when set, else the default.
ImportedWorkerUrl ==
    IF VIRAL_WORKER_URL = Unset THEN "http://localhost:8787"
    ELSE VIRAL_WORKER_URL

\* C9: get_viral_config returns the table's URL for an environment name the
\* table has, the import-time worker URL (the override if set, else the
\* hardcoded default) for every other name, every other setting as in
\* VIRAL_CONFIG, and it never changes VIRAL_CONFIG's worker_url.
C9_Config ==
    /\ VIRAL_CONFIG.worker_url = ImportedWorkerUrl
    /\ config_env # "<no call>"
       => /\ ResolvedEnv = "local"
               => config.worker_url = "http://localhost:8787"
          /\ ResolvedEnv = "development"
               => config.worker_url
                    = "https://your-dev-worker.your-subdomain.workers.dev"
          /\ ResolvedEnv = "production"
               => config.worker_url
                    = "https://your-prod-worker.your-subdomain.workers.dev"
          /\ ResolvedEnv \notin {"local", "development", "production"}
               => config.worker_url = ImportedWorkerUrl
          /\ [config EXCEPT !.worker_url = ImportedWorkerUrl] = VIRAL_CONFIG

\* C9 witness: under an override, a call in production returned the table's
\* URL and the shared record still holds the override.
C9_Witness ==
    /\ config_env = "production"
    /\ VIRAL_WORKER_URL = "https://override-a.example"
    /\ config.worker_url = "https://your-prod-worker.your-subdomain.workers.dev"
    /\ VIRAL_CONFIG.worker_url = "https://override-a.example"

\* C9, the other case reached: an unrecognized name returned the override.
C9_WitnessUnrecognized ==
    /\ config_env = "staging"
    /\ VIRAL_WORKER_URL = "https://override-a.example"
    /\ config.worker_url = "https://override-a.example"

Min(a, b) == IF a < b THEN a ELSE b

\* C10 (as claimed): get_viral_search_history(limit) returns at most limit
\* items: the first min(limit, length) elements of the JSON array of a 200
\* answer, and an empty sequence on any other status, on an error and on a
\* 200 body that is no JSON array.
C10_History ==
    hist_returned = "value"
    => /\ Len(hist_result.elems) <= hist_limit
       /\ IF hist_response.outcome = Status(200)
             /\ hist_response.body.t = "list"
          THEN hist_result
                 = [t |-> "list",
                    elems |-> SubSeq(hist_response.body.elems, 1,
                                     Min(hist_limit,
                                         Len(hist_response.body.elems)))]
          ELSE hist_result.elems = <<>>

\* The search POSTs of call c that were answered 200, and the processings
\* of a response the call started (one per 200 answer whose body the caller
\* could hand to _process_viral_results).
AnsweredOk(c) ==
    {k \in 1..Len(posts[c]) : posts[c][k].outcome = Status(200)}

ProcessingRounds(c) ==
    Cardinality({k \in AnsweredOk(c) : ~BodyRaises(posts[c][k].body)})

\* C11 (as claimed): on the retry path, a search POST answered 200 is the
\* last POST of the call and no backoff wait follows it; the call then
\* returns the processed record, never the fallback result; and the images
\* of the response are processed (downloaded) at most once per call.
C11_NoRetryAfterSuccess ==
    \A c \in CallIds :
       route[c] = "primary"
       => /\ \A k \in AnsweredOk(c) :
                k = Len(posts[c]) /\ Len(waits[c]) < k
          /\ ProcessingRounds(c) <= 1
          /\ (Returned(c) /\ AnsweredOk(c) # {}) => ~IsFallback(result[c])

\* The statuses of the probe the code takes as a sign of life.
Alive == {Status(200), Status(404)}

\* The one POST of the alternative path was answered 200.
SyncAnswered200(c) ==
    Len(posts[c]) = 1 /\ posts[c][1].outcome = Status(200)

\* A body whose processing ends without an exception: it can be handed to
\* _process_viral_results and every number the aggregation sums is a number.
Processable(body) ==
    /\ ~BodyRaises(body)
    /\ \A k \in 1..Len(Images(body)) :
          LET e == Images(body)[k] IN
          e.t = "object"
          => \A key \in {"engagement_score", "views_estimate",
                         "likes_estimate"} :
                Get(e, key, Num(0)).t = "number"

\* C12 (as claimed): a call that took the alternative path returns the
\* processed result if its POST was answered 200 and the fallback result
\* otherwise.
C12_Original ==
    \A c \in CallIds :
       (Returned(c) /\ route[c] = "sync")
       => (IsFallback(result[c]) <=> ~SyncAnswered200(c))

\* C12 (amended): a call issues exactly one health probe, before any search
\* POST; it enters the retry loop if and only if the probe was answered 200
\* or 404; otherwise it issues exactly one POST on the alternative path,
\* with no retry and no backoff wait, and returns the processed result if
\* that POST was answered 200 with a body that is parsed and processed
\* without an error, and the fallback result in every other case.
C12_Probe ==
    \A c \in CallIds :
       /\ Len(probes[c]) <= 1
       /\ (posts[c] # <<>> \/ pc[c] \notin {"idle", "health"})
            => Len(probes[c]) = 1
       /\ Len(probes[c]) = 1
            => /\ route[c] = "primary" <=> probes[c][1] \in Alive
               /\ route[c] = "sync" <=> probes[c][1] \notin Alive
       /\ route[c] = "sync"
            => /\ Len(posts[c]) <= 1
               /\ waits[c] = <<>>
               /\ attempt[c] = 0
               /\ pc[c] # "sync" => Len(posts[c]) = 1
               /\ Done(c)
                    => /\ returned[c] = "value"
                       /\ IsFallback(result[c])
                            <=> ~(/\ SyncAnswered200(c)
                                  /\ Processable(posts[c][1].body))

\* C12 witness: the probe timed out, the one POST of the alternative path
\* was answered 200 and the processed result, with an item, was returned.
C12_Witness ==
    /\ Returned(1)
    /\ probes[1] = <<Raised("Timeout")>>
    /\ route[1] = "sync"
    /\ Outcomes(1) = <<Status(200)>>
    /\ waits[1] = <<>>
    /\ ~IsFallback(result[1])
    /\ Len(result[1].viral_images) >= 1

\* C12, the other case reached: the probe was answered 404 and the retry
\* loop posted more than once.
C12_WitnessPrimary ==
    /\ probes[1] = <<Status(404)>>
    /\ route[1] = "primary"
    /\ Len(posts[1]) = 2

RECURSIVE SumSeq(_)
SumSeq(q) == IF q = <<>> THEN 0 ELSE q[1] + SumSeq(Tail(q))

\* C13: on the retry path the k-th backoff wait lasts 2^(k-1) time units
\* (1, 2, 4, ...); the k-th wait is started by the k-th failed attempt and
\* ends before the POST of attempt k+1; no wait follows the max_retries-th
\* failed attempt, after which the fallback result is returned at once; so
\* a call whose attempts all failed has waited 2^(max_retries-1) - 1 time
\* units in all.
C13_Backoff ==
    \A c \in CallIds :
       route[c] = "primary"
       => /\ \A k \in 1..Len(waits[c]) : waits[c][k] = 2 ^ (k - 1)
          /\ Len(waits[c])
               = IF pc[c] = "sleep" THEN attempt[c] + 1 ELSE attempt[c]
          /\ attempt[c]
               = IF pc[c] = "post" THEN Len(posts[c]) ELSE Len(posts[c]) - 1
          /\ pc[c] = "sleep" => Len(posts[c]) < max_retries
          /\ (Returned(c) /\ IsFallback(result[c]))
               => /\ Len(posts[c]) = max_retries
                  /\ SumSeq(waits[c]) = 2 ^ (max_retries - 1) - 1

\* C13 witness: three attempts failed (a 500, a timeout, an unexpected
\* error), the waits were 1 then 2, and the fallback result was returned.
C13_Witness ==
    /\ Done(1)
    /\ route[1] = "primary"
    /\ Outcomes(1)
         = <<Status(500), Raised("TimeoutError"), Raised("Exception")>>
    /\ waits[1] = <<1, 2>>
    /\ IsFallback(result[1])

\* Attempt k of the retry loop of call c succeeded: its POST was answered
\* 200 and the answer was processed into a result.  Every other attempt
\* failed, by a non-200 status, a timeout or connection error, or an
\* unexpected error.
Succeeded(c, k) ==
    posts[c][k].outcome = Status(200) /\ Processable(posts[c][k].body)

\* C14: on the retry path every failed attempt, whatever its kind, uses up
\* one of the max_retries attempts and is followed by the same backoff: the
\* loop variable and the waits depend on the number of failed attempts only;
\* the POSTs stop at the first successful attempt or after max_retries of
\* them; and the fallback result is returned if and only if max_retries
\* attempts failed.
C14_FailureKinds ==
    \A c \in CallIds :
       route[c] = "primary"
       => /\ Len(posts[c]) <= max_retries
          /\ \A k \in 1..(Len(posts[c]) - 1) : ~Succeeded(c, k)
          /\ pc[c] \in {"post", "sleep"}
               => /\ Len(posts[c]) < max_retries
                  /\ waits[c] = [k \in 1..Len(posts[c]) |-> 2 ^ (k - 1)]
                  /\ \A k \in 1..Len(posts[c]) : ~Succeeded(c, k)
          /\ Done(c)
               => /\ returned[c] = "value"
                  /\ attempt[c] = Len(posts[c]) - 1
                  /\ waits[c] = [k \in 1..(Len(posts[c]) - 1) |-> 2 ^ (k - 1)]
                  /\ IF Succeeded(c, Len(posts[c]))
                     THEN ~IsFallback(result[c])
                     ELSE /\ Len(posts[c]) = max_retries
                          /\ IsFallback(result[c])

\* C14 witness: an unexpected error, then a 200 whose body was no JSON,
\* then a 200 whose record was processed: three POSTs, and the processed
\* result returned.
C14_Witness ==
    /\ Returned(1)
    /\ route[1] = "primary"
    /\ Outcomes(1) = <<Raised("Exception"), Status(200), Status(200)>>
    /\ posts[1][2].body.t = "notjson"
    /\ waits[1] = <<1, 2>>
    /\ ~IsFallback(result[1])
    /\ Len(result[1].viral_images) >= 1

\* C15: the items of a result are an order-preserving subsequence of the
\* raw records of the response: there are at most as many items as raw
\* records, the id of each item is made of the call's session id and the
\* 1-based position of its raw record, whose fields the item repeats, the
\* positions increase along the list, and so no two items share an id.
C15_Subsequence ==
    \A c \in CallIds :
       (Returned(c) /\ ~IsFallback(result[c]))
       => LET items == result[c].viral_images IN
          /\ Len(items) <= RawCount(c)
          /\ \A k \in 1..Len(items) :
                /\ items[k].id.session_id = session_id[c]
                /\ items[k].id.index \in 1..RawCount(c)
                /\ RawAt(c, items[k].id.index).t = "object"
                /\ items[k].image_url
                     = Get(RawAt(c, items[k].id.index), "image_url", "")
                /\ items[k].platform
                     = Get(RawAt(c, items[k].id.index), "platform", "unknown")
          /\ \A j, k \in 1..Len(items) :
                j < k => items[j].id.index < items[k].id.index
          /\ \A j, k \in 1..Len(items) :
                j # k => items[j].id # items[k].id

\* C15 witness: the response held an element that is no record, then a
\* record; the result has one item, with the id of position 2.
C15_Witness ==
    /\ Returned(1)
    /\ ~IsFallback(result[1])
    /\ RawCount(1) = 2
    /\ RawAt(1, 1).t # "object"
    /\ Len(result[1].viral_images) = 1
    /\ result[1].viral_images[1].id
         = [session_id |-> session_id[1], index |-> 2]

\* C15, a second case reached: two records gave two items, in order.
C15_WitnessTwo ==
    /\ Returned(1)
    /\ Len(result[1].viral_images) = 2
    /\ result[1].viral_images[1].id.index = 1
    /\ result[1].viral_images[2].id.index = 2
    /\ result[1].viral_images[1].platform # result[1].viral_images[2].platform

\* The positions of the records the loop of call c has finished whose
\* handling did not raise (the elements that are objects).
Handled(c) == {k \in 1..(idx[c] - 1) : RawAt(c, k).t = "object"}

\* The positions whose image GET did not end in a saved file.
FailedGets(c) ==
    {gets[c][k].index : k \in {j \in 1..Len(gets[c]) : ~gets[c][j].ok}}

ItemIndexes(imgs) == {imgs[k].id.index : k \in 1..Len(imgs)}

\* C16 (as claimed): a record whose image download failed is skipped: it is
\* not among viral_images.
C16_Original ==
    \A c \in CallIds :
       (Returned(c) /\ ~IsFallback(result[c]))
       => ItemIndexes(result[c].viral_images) \cap FailedGets(c) = {}

\* C16 (amended): a failed image download (a status other than 200, or an
\* error on the GET or on reading its body) does not skip the record: the
\* record is among viral_images with an absent local_image_path, counted in
\* total_images_found and not in total_images_saved.  Only an element whose
\* handling raises (one that is no object) is skipped.  Neither aborts the
\* batch: every other record of the response is processed.
C16_FailedDownloadKept ==
    \A c \in CallIds :
       /\ (viral_result[c] # NoBody
             /\ pc[c] \in {"process", "get", "read", "sleep", "done"})
            => /\ ItemIndexes(processed_images[c]) = Handled(c)
               /\ Len(processed_images[c]) = Cardinality(Handled(c))
               /\ \A k \in 1..Len(processed_images[c]) :
                     processed_images[c][k].id.index \in FailedGets(c)
                     => processed_images[c][k].local_image_path = NoneValue
       /\ (Returned(c) /\ ~IsFallback(result[c]))
            => /\ idx[c] = RawCount(c) + 1
               /\ result[c].viral_images = processed_images[c]
               /\ result[c].total_images_found = Cardinality(Handled(c))
               /\ result[c].total_images_saved
                    = Cardinality(Handled(c)
                                    \cap (WithUrl(c) \ FailedGets(c)))

\* C16 witness: of two records, the download of the first was answered 404
\* and that of the second 200; both are among viral_images, the first with
\* an absent local_image_path.
C16_Witness ==
    /\ Returned(1)
    /\ ~IsFallback(result[1])
    /\ gets[1] = <<[index |-> 1, ok |-> FALSE], [index |-> 2, ok |-> TRUE]>>
    /\ Len(result[1].viral_images) = 2
    /\ result[1].viral_images[1].local_image_path = NoneValue
    /\ result[1].viral_images[2].local_image_path # NoneValue
    /\ result[1].total_images_found = 2
    /\ result[1].total_images_saved = 1

\* The positions, among the records call c has finished, of those with a
\* non-empty image_url.
WalkedWithUrl(c) == {k \in WithUrl(c) : k < idx[c]}

\* A download of call c is in flight: its GET is issued and its file is
\* neither written nor given up.
InFlight(c) == pc[c] \in {"get", "read"}

\* C17: within one processing of a response the image GETs are issued one
\* after the other in record order, each download ending before the next
\* record is taken: at most one download is in flight, that of the record
\* the loop is at, and every earlier record with a non-empty image_url got
\* exactly one GET, which has ended; no GET is repeated, and a record with
\* an empty or missing image_url got no GET and no file.
C17_Sequential ==
    \A c \in CallIds :
       (viral_result[c] # NoBody
          /\ pc[c] \in {"process", "get", "read", "done"})
       => /\ \A j, k \in 1..Len(gets[c]) :
                j < k => gets[c][j].index < gets[c][k].index
          /\ {gets[c][k].index : k \in 1..Len(gets[c])} = WalkedWithUrl(c)
          /\ Len(gets[c]) = Cardinality(WalkedWithUrl(c))
          /\ InFlight(c) <=> pending_filename[c] # NoneValue
          /\ InFlight(c)
               => /\ idx[c] \in WithUrl(c)
                  /\ pending_filename[c].index = idx[c]
          /\ \A f \in written[c] :
                /\ f.session_id = session_id[c]
                /\ f.filename_base.index \in WalkedWithUrl(c)
                /\ \E k \in 1..Len(gets[c]) :
                      gets[c][k].index = f.filename_base.index /\ gets[c][k].ok
          /\ Cardinality(written[c]) <= Len(gets[c])

\* C17 witness: three records, the first with a URL whose GET was answered
\* 200, the second with no image_url, the third with a URL whose GET
\* failed: two GETs, at positions 1 and 3, and one file, of position 1.
C17_Witness ==
    /\ Done(1)
    /\ RawCount(1) = 3
    /\ WithUrl(1) = {1, 3}
    /\ RawAt(1, 2).t = "object"
    /\ "image_url" \notin DOMAIN RawAt(1, 2).f
    /\ gets[1] = <<[index |-> 1, ok |-> TRUE], [index |-> 3, ok |-> FALSE]>>
    /\ Cardinality(written[1]) = 1
    /\ \A f \in written[1] : f.filename_base.index = 1

\* C17, the state between the GET and the file: the download of the third
\* record is in flight after that of the first has ended.
C17_WitnessInFlight ==
    /\ pc[1] = "read"
    /\ idx[1] = 3
    /\ Len(gets[1]) = 1
    /\ gets[1][1].index = 1

\* C18 (as claimed): a call that returned the fallback result has written
\* no image file: the cache holds the files it held when the call started.
C18_FallbackWritesNothing ==
    \A c \in CallIds :
       (Returned(c) /\ IsFallback(result[c]))
       => (written[c] = {} /\ files = files0[c])

\* C19: in a returned result, an item with a local_image_path names a file
\* this call wrote under the directory of its session, which is in the
\* cache; distinct items have distinct paths; and an item has no
\* local_image_path exactly when its image_url is empty or its download
\* failed (a status other than 200, or an error).
C19_LocalPaths ==
    \A c \in CallIds :
       (Returned(c) /\ ~IsFallback(result[c]))
       => LET items == result[c].viral_images IN
          /\ \A k \in 1..Len(items) :
                items[k].local_image_path # NoneValue
                => /\ items[k].local_image_path \in written[c]
                   /\ items[k].local_image_path \in files
                   /\ items[k].local_image_path.session_id = session_id[c]
                   /\ items[k].local_image_path.filename_base.index
                        = items[k].id.index
          /\ \A j, k \in 1..Len(items) :
                (j # k /\ items[j].local_image_path # NoneValue)
                => items[j].local_image_path # items[k].local_image_path
          /\ \A k \in 1..Len(items) :
                items[k].local_image_path = NoneValue
                <=> (items[k].image_url = ""
                     \/ items[k].id.index \in FailedGets(c))

\* C19 witness: two records with the same image URL, both downloads
\* answered 200: two items with two distinct paths, both written.
C19_Witness ==
    /\ Returned(1)
    /\ ~IsFallback(result[1])
    /\ Len(result[1].viral_images) = 2
    /\ result[1].viral_images[1].image_url
         = result[1].viral_images[2].image_url
    /\ result[1].viral_images[1].local_image_path # NoneValue
    /\ result[1].viral_images[2].local_image_path # NoneValue
    /\ Cardinality(written[1]) = 2

\* C19, the converse case reached: one item saved, one whose GET raised.
C19_WitnessAbsent ==
    /\ Returned(1)
    /\ Len(result[1].viral_images) = 2
    /\ result[1].viral_images[1].local_image_path = NoneValue
    /\ result[1].viral_images[1].image_url # ""
    /\ result[1].viral_images[2].local_image_path # NoneValue

====
